---- MODULE Spec2Model ----
(***************************************************************************)
(* Model of nanai_consys: gpu::get_gpu_usage (src/src/gpu.rs) and its      *)
(* caller main (src/src/main.rs).                                          *)
(*                                                                         *)
(* The operating system is the environment: it decides whether the DXGI    *)
(* factory can be created, how many adapter entries it reports, whether a  *)
(* description fetch succeeds and which LUID a description carries.        *)
(*                                                                         *)
(* Text is modelled as sequences of one-character strings.  An f64 is      *)
(* modelled as an exact fraction <<n, d>> with d > 0; <<0, 0>> is NaN.     *)
(***************************************************************************)
EXTENDS Integers, Sequences, FiniteSets, TLC

\* ------------------------------------------------------------------ bounds
\* Largest number of adapter entries the OS reports.  It exceeds the cap of
\* the enumeration loop, so an OS that answers every request of the loop
\* with an entry is covered.
MaxAdapters == 11

\* ------------------------------------------------------- program constants
\* gpu.rs:33  `if adapter_index >= 10 { break; }`
AdapterCap == 10

\* gpu.rs:28  `let placeholder_usage = 0.0;`
placeholder_usage == <<0, 1>>

\* ------------------------------------------------------------ environment
\* LUIDs (HighPart : i32, LowPart : u32) the OS may put in a description.
\* <<1, 17>> and <<17, 1>> differ only in where the digits fall, <<-1, 0>>
\* has a negative high part.
Luids == { <<0, 1>>, <<1, 17>>, <<17, 1>>, <<-1, 0>> }

NoLuid == <<0, 0>>

\* Answers of EnumAdapters other than an entry: the end of the enumeration
\* and a failure of the call.
EndAnswers == {"not_found", "failed"}

NoAdapter == -1

FactoryRef == <<"factory", 0>>

AdapterRef(i) == <<"adapter", i>>

Resources == {FactoryRef} \cup { AdapterRef(i) : i \in 0..(MaxAdapters + 1) }

\* ---------------------------------------------------------- text helpers
HexChars == <<"0", "1", "2", "3", "4", "5", "6", "7",
              "8", "9", "a", "b", "c", "d", "e", "f">>

DecChars == <<"0", "1", "2", "3", "4", "5", "6", "7", "8", "9">>

RECURSIVE HexOfNat(_)
\* Lower-case hexadecimal digits of a non-negative integer, no padding.
HexOfNat(n) ==
    IF n < 16 THEN <<HexChars[n + 1]>>
    ELSE HexOfNat(n \div 16) \o <<HexChars[(n % 16) + 1]>>

\* `{:x}` of a 32-bit integer: a negative i32 prints as its two's complement
\* bit pattern, n + 2^32 = 8 * 16^7 + (n + 2^31).
LowerHex(n) ==
    IF n >= 0 THEN HexOfNat(n)
    ELSE LET m == (n + 2147483647) + 1
             top == m \div 268435456
             rest == m % 268435456
             low == HexOfNat(rest)
         IN  <<HexChars[top + 8 + 1]>>
             \o [i \in 1..(7 - Len(low)) |-> "0"] \o low

\* `{:08x}`: zero padding on the left up to a minimum width of 8.
Pad08(s) ==
    IF Len(s) >= 8 THEN s ELSE [i \in 1..(8 - Len(s)) |-> "0"] \o s

\* A plausible slip: `format!("{:x}{:x}", ..)`, the width left out.
FormatLuidUnpadded(luid) == LowerHex(luid[1]) \o LowerHex(luid[2])

\* gpu.rs:24  format!("{:08x}{:08x}", HighPart, LowPart)
FormatLuid(luid) == Pad08(LowerHex(luid[1])) \o Pad08(LowerHex(luid[2]))

RECURSIVE DecOfNat(_)
\* `{}` of a usize.
DecOfNat(n) ==
    IF n < 10 THEN <<DecChars[n + 1]>>
    ELSE DecOfNat(n \div 10) \o <<DecChars[(n % 10) + 1]>>

\* ---------------------------------------------------------------- floats
NaN == <<0, 0>>

IsNaN(x) == x[2] = 0

\* a < b for two comparable values
FLess(a, b) == a[1] * b[2] < b[1] * a[2]

\* a <= b as f64 compares: false as soon as one side is NaN
FLeq(a, b) == ~IsNaN(a) /\ ~IsNaN(b) /\ a[1] * b[2] <= b[1] * a[2]

FEq(a, b) == ~IsNaN(a) /\ ~IsNaN(b) /\ a[1] * b[2] = b[1] * a[2]

RECURSIVE SumNum(_)
\* numerator of the sum of samples that all have denominator 1
SumNum(vals) ==
    IF vals = <<>> THEN 0 ELSE Head(vals)[1] + SumNum(Tail(vals))

\* gpu.rs:40  vals.iter().sum::<f64>() / vals.len() as f64
\* (0.0 / 0.0 is NaN)
Mean(vals) == IF Len(vals) = 0 THEN NaN ELSE <<SumNum(vals), Len(vals)>>

\* `{:.2}` of a non-negative f64: rounded to hundredths (ties to even).
Fmt2(x) ==
    IF IsNaN(x) THEN <<"N", "a", "N">>
    ELSE LET q0 == (x[1] * 100) \div x[2]
             r  == (x[1] * 100) % x[2]
             q  == IF 2 * r > x[2] \/ (2 * r = x[2] /\ q0 % 2 = 1)
                   THEN q0 + 1 ELSE q0
             f  == q % 100
         IN  DecOfNat(q \div 100)
             \o <<".", DecChars[(f \div 10) + 1], DecChars[(f % 10) + 1]>>

\* ------------------------------------------------------------------ sort
RECURSIVE InsertSorted(_, _)
\* x goes after every element that is not greater than it (stable)
InsertSorted(x, s) ==
    IF s = <<>> THEN <<x>>
    ELSE IF FLess(x, Head(s)) THEN <<x>> \o s
    ELSE <<Head(s)>> \o InsertSorted(x, Tail(s))

RECURSIVE SortAsc(_)
\* gpu.rs:42  usages.sort_by(|a, b| a.partial_cmp(b).unwrap()) on values that
\* are all comparable: the stable ascending arrangement.
SortAsc(s) ==
    IF s = <<>> THEN <<>>
    ELSE InsertSorted(s[Len(s)], SortAsc(SubSeq(s, 1, Len(s) - 1)))

\* gpu.rs:42  partial_cmp(..) is None when a side is NaN and unwrap() then
\* panics; a slice of fewer than two elements is never compared.
SortPanics(s) == Len(s) >= 2 /\ \E i \in 1..Len(s) : IsNaN(s[i])

\* The orders in which HashMap::values() may yield the groups.
Orderings(S) ==
    { f \in [1..Cardinality(S) -> S] :
        \A i, j \in 1..Cardinality(S) : i # j => f[i] # f[j] }

\* gpu.rs:39-41  the per-group means, in iteration order
Means(map, order) == [i \in 1..Len(order) |-> Mean(map[order[i]])]

\* A plausible slip: the closure yields the group's size and the sort is
\* left out.
UsagesCountsUnsorted(map, order) ==
    [i \in 1..Len(order) |-> <<Len(map[order[i]]), 1>>]

\* gpu.rs:39-42  the value of `usages` after the sort
Usages(map, order) == SortAsc(Means(map, order))

\* ------------------------------------------------------------- grouping
\* A plausible slip: the group is created but the sample is only pushed to
\* a group that already existed.
InsertOnlyGroup(map, key, sample) ==
    IF key \in DOMAIN map
    THEN [map EXCEPT ![key] = Append(@, sample)]
    ELSE [k \in (DOMAIN map) \cup {key} |->
            IF k = key THEN <<>> ELSE map[k]]

\* gpu.rs:30  gpu_map.entry(luid).or_insert(Vec::new()).push(sample)
PushSample(map, key, sample) ==
    IF key \in DOMAIN map
    THEN [map EXCEPT ![key] = Append(@, sample)]
    ELSE [k \in (DOMAIN map) \cup {key} |->
            IF k = key THEN <<sample>> ELSE map[k]]

EmptyMap == [k \in {} |-> <<>>]

RECURSIVE TotalSamples(_)
TotalSamples(map) ==
    IF DOMAIN map = {} THEN 0
    ELSE LET k == CHOOSE x \in DOMAIN map : TRUE
         IN  Len(map[k]) + TotalSamples([j \in (DOMAIN map) \ {k} |-> map[j]])

\* ------------------------------------------------------------ resources
\* Drop of a COM interface value: one Release of the reference.
Release(relf, r) == [relf EXCEPT ![r] = @ + 1]

\* A plausible slip: the early return gives up the factory but leaks the
\* adapter reference of the entry being processed.
ErrorExitLeaksAdapter(relf, a) == Release(relf, FactoryRef)

\* gpu.rs:21  `?` returns early: the locals `adapter` and `factory` go out
\* of scope.
ErrorExitReleases(relf, a) == Release(Release(relf, AdapterRef(a)), FactoryRef)

\* ---------------------------------------------------------------- state
VARIABLES
    pc,             \* position in main / get_gpu_usage
    osCount,        \* environment: number of adapter entries the OS reports
    osEnd,          \* environment: what the OS answers past its last entry
    adapter_index,  \* gpu.rs:13
    adapter,        \* index of the entry held by `adapter`, or NoAdapter
    desc,           \* AdapterLuid of the description fetched last
    gpu_map,        \* gpu.rs:12  key -> samples
    requests,       \* history: indices passed to EnumAdapters, in order
    answers,        \* history: the OS's answer to each request
    descFetches,    \* history: outcome of each GetDesc call, in order
    visitedIds,     \* history: LUIDs of the entries grouped
    acq,            \* history: per resource, number of acquisitions
    rel,            \* history: per resource, number of releases
    result,         \* the value get_gpu_usage returned
    stdout,         \* lines printed by main
    exitCode        \* process exit status, -1 while running

vars == <<pc, osCount, osEnd, adapter_index, adapter, desc, gpu_map, requests,
          answers, descFetches, visitedIds, acq, rel, result, stdout,
          exitCode>>

NoResult == [ok |-> FALSE, val |-> <<>>, err |-> "pending"]

OkResult(v) == [ok |-> TRUE, val |-> v, err |-> "none"]

ErrResult(e) == [ok |-> FALSE, val |-> <<>>, err |-> e]

Init ==
    /\ pc = "start"
    /\ osCount \in 0..MaxAdapters
    /\ osEnd \in EndAnswers
    /\ adapter_index = 0
    /\ adapter = NoAdapter
    /\ desc = NoLuid
    /\ gpu_map = EmptyMap
    /\ requests = <<>>
    /\ answers = <<>>
    /\ descFetches = <<>>
    /\ visitedIds = {}
    /\ acq = [r \in Resources |-> 0]
    /\ rel = [r \in Resources |-> 0]
    /\ result = NoResult
    /\ stdout = <<>>
    /\ exitCode = -1

\* --------------------------------------------------------------- actions
\* What the OS answers to EnumAdapters(i): an entry while i is below the
\* number of entries it reports; from there on DXGI_ERROR_NOT_FOUND, or
\* another failure of the call.
EnumAnswer(i) == IF i < osCount THEN "ok" ELSE osEnd

\* A plausible slip: `adapter_index += 2`.
NextIndexSkips(i) == i + 2

\* gpu.rs:17  adapter_index += 1
NextIndex(i) == i + 1

\* A plausible slip: `>` for `>=`.
CapReachedOffByOne(i) == i > AdapterCap

\* gpu.rs:33  adapter_index >= 10
CapReached(i) == i >= AdapterCap

\* A plausible slip: the failure is propagated to the process exit status.
ExitStatusPropagates(r) == IF r.ok THEN 0 ELSE 1

\* main.rs:3-16  main returns (): the exit status does not depend on the
\* result.
ExitStatus(r) == 0

\* A plausible slip: the groups are numbered from 1.
UsageLineFromOne(i, usage) ==
    <<"GPU ", DecOfNat(i + 1), " Usage: ", Fmt2(usage), "%">>

\* main.rs:10  println!("GPU {} Usage: {:.2}%", i, usage)
UsageLine(i, usage) == <<"GPU ", DecOfNat(i), " Usage: ", Fmt2(usage), "%">>

\* Display of the boxed OS error: the message of the failed call.
ErrorMessage(e) == <<"message of ", e>>

\* main.rs:13  println!("Error getting GPU usage: {}", e)
ErrorLine(e) == <<"Error getting GPU usage: ", ErrorMessage(e)>>

\* A plausible slip: a failed factory creation is not propagated and the
\* enumeration is attempted anyway.
CreateFactoryIgnoresFailure ==
    /\ pc = "start"
    /\ \E ok \in BOOLEAN :
         /\ acq' = IF ok THEN [acq EXCEPT ![FactoryRef] = @ + 1] ELSE acq
         /\ pc' = "enum"
    /\ UNCHANGED <<osCount, osEnd, adapter_index, adapter, desc, gpu_map,
                   requests, answers, descFetches, visitedIds, rel, result,
                   stdout, exitCode>>

\* gpu.rs:10-13  CreateDXGIFactory()?  then the map and the index
CreateFactory ==
    /\ pc = "start"
    /\ \E ok \in BOOLEAN :
         IF ok
         THEN /\ acq' = [acq EXCEPT ![FactoryRef] = @ + 1]
              /\ pc' = "enum"
              /\ UNCHANGED result
         ELSE /\ result' = ErrResult("EnumerationUnavailable")
              /\ pc' = "returned"
              /\ UNCHANGED acq
    /\ adapter_index' = 0
    /\ gpu_map' = EmptyMap
    /\ UNCHANGED <<osCount, osEnd, adapter, desc, requests, answers,
                   descFetches, visitedIds, rel, stdout, exitCode>>

\* gpu.rs:16-17  while let Ok(adapter) = factory.EnumAdapters(adapter_index)
\* and, in the body, adapter_index += 1.  Any answer but an entry ends the
\* loop.
EnumAdapters ==
    /\ pc = "enum"
    /\ requests' = Append(requests, adapter_index)
    /\ answers' = Append(answers, EnumAnswer(adapter_index))
    /\ IF EnumAnswer(adapter_index) = "ok"
       THEN /\ adapter' = adapter_index
            /\ acq' = [acq EXCEPT ![AdapterRef(adapter_index)] = @ + 1]
            /\ adapter_index' = NextIndex(adapter_index)
            /\ pc' = "desc"
       ELSE /\ pc' = "aggregate"
            /\ UNCHANGED <<adapter, acq, adapter_index>>
    /\ UNCHANGED <<osCount, osEnd, desc, gpu_map, descFetches, visitedIds,
                   rel, result, stdout, exitCode>>

\* A plausible slip: an entry whose description cannot be read is skipped
\* and the enumeration goes on.
GetDescSkipsOnFailure ==
    /\ pc = "desc"
    /\ \E ok \in BOOLEAN, luid \in Luids :
         IF ok
         THEN /\ desc' = luid
              /\ descFetches' = Append(descFetches, "ok")
              /\ pc' = "group"
              /\ UNCHANGED <<rel, adapter>>
         ELSE /\ descFetches' = Append(descFetches, "failed")
              /\ rel' = Release(rel, AdapterRef(adapter))
              /\ adapter' = NoAdapter
              /\ pc' = "enum"
              /\ UNCHANGED desc
    /\ UNCHANGED <<osCount, osEnd, adapter_index, gpu_map, requests, answers,
                   visitedIds, acq, result, stdout, exitCode>>

\* gpu.rs:20-21  adapter.GetDesc(&mut desc)?
GetDesc ==
    /\ pc = "desc"
    /\ \E ok \in BOOLEAN, luid \in Luids :
         IF ok
         THEN /\ desc' = luid
              /\ descFetches' = Append(descFetches, "ok")
              /\ pc' = "group"
              /\ UNCHANGED <<rel, adapter, result, gpu_map>>
         ELSE /\ descFetches' = Append(descFetches, "failed")
              /\ result' = ErrResult("DescriptionUnavailable")
              /\ rel' = ErrorExitReleases(rel, adapter)
              /\ adapter' = NoAdapter
              /\ gpu_map' = EmptyMap
              /\ pc' = "returned"
              /\ UNCHANGED desc
    /\ UNCHANGED <<osCount, osEnd, adapter_index, requests, answers,
                   visitedIds, acq, stdout, exitCode>>

\* gpu.rs:24-30  the key of the entry and the push of its sample
GroupEntry ==
    /\ pc = "group"
    /\ gpu_map' = PushSample(gpu_map, FormatLuid(desc), placeholder_usage)
    /\ visitedIds' = visitedIds \cup {desc}
    /\ pc' = "cap"
    /\ UNCHANGED <<osCount, osEnd, adapter_index, adapter, desc, requests,
                   answers, descFetches, acq, rel, result, stdout, exitCode>>

\* gpu.rs:33-36  the cap test; `adapter` goes out of scope at the end of the
\* body and at the break alike
CapCheck ==
    /\ pc = "cap"
    /\ rel' = Release(rel, AdapterRef(adapter))
    /\ adapter' = NoAdapter
    /\ pc' = IF CapReached(adapter_index) THEN "aggregate" ELSE "enum"
    /\ UNCHANGED <<osCount, osEnd, adapter_index, desc, gpu_map, requests,
                   answers, descFetches, visitedIds, acq, result, stdout,
                   exitCode>>

\* A plausible slip: a machine without adapters is reported as a failure.
AggregateRejectsEmpty ==
    /\ pc = "aggregate"
    /\ \E order \in Orderings(DOMAIN gpu_map) :
         IF DOMAIN gpu_map = {}
         THEN /\ result' = ErrResult("NoAdapters")
              /\ pc' = "returned"
              /\ UNCHANGED exitCode
         ELSE IF SortPanics(Means(gpu_map, order))
         THEN /\ pc' = "panicked"
              /\ exitCode' = 101
              /\ UNCHANGED result
         ELSE /\ result' = OkResult(Usages(gpu_map, order))
              /\ pc' = "returned"
              /\ UNCHANGED exitCode
    /\ rel' = Release(rel, FactoryRef)
    /\ gpu_map' = EmptyMap
    /\ UNCHANGED <<osCount, osEnd, adapter_index, adapter, desc, requests,
                   answers, descFetches, visitedIds, acq, stdout>>

\* gpu.rs:39-45  means, sort and return; the factory goes out of scope on
\* return and on unwinding alike
Aggregate ==
    /\ pc = "aggregate"
    /\ \E order \in Orderings(DOMAIN gpu_map) :
         IF SortPanics(Means(gpu_map, order))
         THEN /\ pc' = "panicked"
              /\ exitCode' = 101
              /\ UNCHANGED result
         ELSE /\ result' = OkResult(Usages(gpu_map, order))
              /\ pc' = "returned"
              /\ UNCHANGED exitCode
    /\ rel' = Release(rel, FactoryRef)
    /\ gpu_map' = EmptyMap
    /\ UNCHANGED <<osCount, osEnd, adapter_index, adapter, desc, requests,
                   answers, descFetches, visitedIds, acq, stdout>>

\* main.rs:7-14  the match on the result, then the end of main
Main ==
    /\ pc = "returned"
    /\ stdout' = IF result.ok
                 THEN [i \in 1..Len(result.val) |->
                         UsageLine(i - 1, result.val[i])]
                 ELSE <<ErrorLine(result.err)>>
    /\ exitCode' = ExitStatus(result)
    /\ pc' = "exit"
    /\ UNCHANGED <<osCount, osEnd, adapter_index, adapter, desc, gpu_map,
                   requests, answers, descFetches, visitedIds, acq, rel,
                   result>>

Next ==
    \/ CreateFactory
    \/ EnumAdapters
    \/ GetDesc
    \/ GroupEntry
    \/ CapCheck
    \/ Aggregate
    \/ Main

Spec == Init /\ [][Next]_vars

\* ---------------------------------------------------------------- claims
Returned == pc \in {"returned", "exit"}

Min(a, b) == IF a < b THEN a ELSE b

\* C1: a successful call returns exactly one element per distinct adapter
\* identity (LUID pair) among the entries the enumeration produced, K of
\* them for N >= K entries.
Thm_C1_OnePerIdentity ==
    (Returned /\ result.ok) =>
        /\ Len(result.val) = Cardinality(visitedIds)
        /\ Cardinality(visitedIds) <= Len(descFetches)

\* Three or more entries, two identities whose digits differ only in their
\* position, two elements returned.
Wit_C1_SharedIdentity ==
    /\ pc = "returned"
    /\ result.ok
    /\ Len(descFetches) >= 3
    /\ visitedIds = { <<1, 17>>, <<17, 1>> }
    /\ Len(result.val) = 2

\* C2: at most 10 EnumAdapters requests are made and no index above 9 is
\* requested, whatever number of adapters the OS reports.
Thm_C2_RequestCap ==
    /\ Len(requests) <= 10
    /\ \A i \in 1..Len(requests) : requests[i] <= 9

\* The OS reports more than 10 entries and the call has returned after ten
\* requests.
Wit_C2_CapHit ==
    /\ osCount > 10
    /\ pc = "exit"
    /\ result.ok
    /\ Len(requests) = 10

\* C3: the sequence a successful call returns is sorted ascending: a <= b
\* for every adjacent pair.
Thm_C3_SortedAscending ==
    result.ok =>
        \A i \in 1..(Len(result.val) - 1) :
            FLeq(result.val[i], result.val[i + 1])

\* A success with three groups, hence two adjacent pairs, from five entries
\* (so the groups do not all have the same size).
Wit_C3_ThreeGroups ==
    /\ pc = "returned"
    /\ result.ok
    /\ Len(result.val) = 3
    /\ Len(descFetches) = 5

\* C4: when the request for index 0 already signals the end of the
\* enumeration, the call succeeds with the empty sequence.
Thm_C4_EmptyEnumeration ==
    (Returned /\ answers = <<"not_found">>) => result = OkResult(<<>>)

\* The OS reports no adapter and the call has returned.
Wit_C4_NoAdapters ==
    /\ pc = "returned"
    /\ osCount = 0
    /\ answers = <<"not_found">>
    /\ result.ok

\* C5: when the factory cannot be created the call fails with
\* EnumerationUnavailable, carries no output, and no adapter request or
\* description fetch is ever made.
Thm_C5_FactoryFailure ==
    (pc # "start" /\ acq[FactoryRef] = 0) =>
        /\ Returned
        /\ result = ErrResult("EnumerationUnavailable")
        /\ requests = <<>>
        /\ descFetches = <<>>
        /\ \A r \in Resources : acq[r] = 0
        /\ pc = "exit" =>
             /\ Len(stdout) = 1
             /\ stdout[1][1] = "Error getting GPU usage: "

\* The factory creation failed and the call has returned.
Wit_C5_FactoryFailed ==
    /\ pc = "returned"
    /\ acq[FactoryRef] = 0
    /\ result.err = "EnumerationUnavailable"

\* C6: once a description fetch has failed the call has failed with
\* DescriptionUnavailable: the failing fetch is the last one, no entry is
\* requested after it, and nothing is returned for the entries grouped
\* before it.
Thm_C6_DescriptionFailure ==
    (\E i \in 1..Len(descFetches) : descFetches[i] = "failed") =>
        /\ Returned
        /\ result = ErrResult("DescriptionUnavailable")
        /\ descFetches[Len(descFetches)] = "failed"
        /\ \A i \in 1..(Len(descFetches) - 1) : descFetches[i] = "ok"
        /\ Len(requests) = Len(descFetches)
        /\ pc = "exit" =>
             /\ Len(stdout) = 1
             /\ stdout[1][1] = "Error getting GPU usage: "

\* The fetch for the third entry failed after two entries were grouped
\* under two identities.
Wit_C6_ThirdFetchFailed ==
    /\ pc = "exit"
    /\ result.err = "DescriptionUnavailable"
    /\ Len(descFetches) = 3
    /\ Cardinality(visitedIds) = 2

\* C7: no reference is released more often than it was acquired, and once
\* the call has returned every acquired reference has been released.
Thm_C7_ResourcesReleased ==
    /\ \A r \in Resources : rel[r] <= acq[r]
    /\ Returned => \A r \in Resources : rel[r] = acq[r]

\* Return by the early error exit while the adapter reference of the second
\* entry was held.
Wit_C7_ErrorExitWithAdapter ==
    /\ pc = "returned"
    /\ result.err = "DescriptionUnavailable"
    /\ acq[FactoryRef] = 1
    /\ acq[AdapterRef(1)] = 1
    /\ rel[AdapterRef(1)] = 1

\* C8: at process exit the status is 0; after a success with K groups the
\* output is the K lines "GPU i Usage: 0.00%" for i = 0..K-1, after a
\* failure the single line "Error getting GPU usage: <message>".
Thm_C8_Report ==
    pc = "exit" =>
        /\ exitCode = 0
        /\ IF result.ok
           THEN /\ Len(stdout) = Len(result.val)
                /\ \A i \in 1..Len(stdout) :
                     stdout[i] = <<"GPU ", <<DecChars[i]>>, " Usage: ",
                                   <<"0", ".", "0", "0">>, "%">>
           ELSE /\ result.err \in {"EnumerationUnavailable",
                                   "DescriptionUnavailable"}
                /\ stdout = << <<"Error getting GPU usage: ",
                                 <<"message of ", result.err>> >> >>

\* Exit after a success with two groups.
Wit_C8_TwoLines ==
    /\ pc = "exit"
    /\ result.ok
    /\ Len(result.val) = 2
    /\ Len(stdout) = 2

\* C9: the indices requested are 0, 1, 2, ... in order, every request but
\* the last was answered with an entry, the loop is left once a request is
\* answered with the end of the enumeration or a failure, and when the
\* loop has ended the number of samples over all groups is min(N, 10).
Thm_C9_ConsecutiveRequests ==
    /\ \A i \in 1..Len(requests) : requests[i] = i - 1
    /\ \A i \in 1..(Len(requests) - 1) : answers[i] = "ok"
    /\ \A i \in 1..Len(answers) :
         answers[i] \in EndAnswers => pc \notin {"enum", "desc", "group", "cap"}
    /\ pc = "aggregate" => TotalSamples(gpu_map) = Min(osCount, 10)
    /\ (Returned /\ result.ok) => Len(descFetches) = Min(osCount, 10)

\* The loop ended on the end-of-enumeration answer to the fourth request.
Wit_C9_EndSignal ==
    /\ pc = "aggregate"
    /\ Len(requests) = 4
    /\ answers[4] = "not_found"
    /\ TotalSamples(gpu_map) = 3

\* C10: every group of the map holds at least one sample, so no mean is
\* NaN, the comparison of the sort never fails, and every element returned
\* is 0.0.
Thm_C10_GroupsNonEmpty ==
    /\ \A k \in DOMAIN gpu_map :
         /\ Len(gpu_map[k]) >= 1
         /\ ~IsNaN(Mean(gpu_map[k]))
    /\ pc # "panicked"
    /\ result.ok =>
         \A i \in 1..Len(result.val) : FEq(result.val[i], <<0, 1>>)

\* The loop has ended with two groups, one of them with several samples.
Wit_C10_UnevenGroups ==
    /\ pc = "aggregate"
    /\ Cardinality(DOMAIN gpu_map) = 2
    /\ \E k \in DOMAIN gpu_map : Len(gpu_map[k]) >= 2

====
